---------------------------- MODULE Spec2Model ----------------------------
(***************************************************************************)
(* Model of the authorization and access-control engine of the enhanced    *)
(* PrivateGPT server: users and tokens (auth_service.py, auth.py,          *)
(* auth_router.py), document ownership and grants (auth_service.py,        *)
(* enhanced_ingest_router.py), LLM models and the entitlements to them     *)
(* (auth_service.py, auth_router.py), the transaction of a grant           *)
(* (database.py), the narrowing of the chat context filter and the model   *)
(* listing (enhanced_chat_router.py), and the setup run at every start     *)
(* of the server (init_enhanced.py).                                       *)
(*                                                                         *)
(* The store is the default one of database.py: SQLite, whose rowid        *)
(* primary keys are max+1 and whose foreign keys are not enforced.         *)
(* An Optional value is a set with at most one element ({} is None).       *)
(***************************************************************************)
EXTENDS Integers, Sequences, FiniteSets, Bags

(* users                      the rows of the users table (models.py User)  *)
(* tokens                     per client, the bearer token it last got from *)
(*                            login (auth_router.py), {} before any login   *)
(* now                        the clock read by create_access_token and     *)
(*                            by the expiry check of verify_token, minutes  *)
(* documents                  the rows of the documents table (Document)    *)
(* user_document_permissions  the bag of rows of the association table      *)
(* chat_call                  the call of the chat service in progress:     *)
(*                            caller, use_context, the filter requested and *)
(*                            the filter handed on; {} when none            *)
(* ingested                   the ids of the documents held by the ingest   *)
(*                            service (IngestService)                       *)
(* llm_models                 the rows of the llm_models table (LLMModel)   *)
(* user_model_access          the bag of (user_id, model_id) pairs of the   *)
(*                            rows of the user_model_access table           *)
(* grant_sessions             per database session, the grant transaction   *)
(*                            it has open: its arguments, the rows deleted  *)
(*                            and inserted and not yet committed            *)
(* model_grant_sessions       per database session, the grant_model_access  *)
(*                            call it is in: its arguments and what its     *)
(*                            query for the row found                       *)
VARIABLES users, tokens, now, documents, user_document_permissions, chat_call,
          ingested, llm_models, user_model_access, grant_sessions,
          model_grant_sessions

vars == <<users, tokens, now, documents, user_document_permissions, chat_call,
          ingested, llm_models, user_model_access, grant_sessions,
          model_grant_sessions>>

----------------------------------------------------------------------------
(* Bounds of the model *)

MaxUserId == 3

MaxPermList == 2

MaxSharedPerms == 1

MaxModelId == 2

MaxNow == 32

MaxSetupUserId == 5

(* Program constants *)

access_token_expire_minutes == 30

----------------------------------------------------------------------------
(* models.py: roles, permissions and the role-to-permission table *)

SUPERADMIN == "superadmin"
ADMIN == "admin"
USER == "user"

UserRole == {SUPERADMIN, ADMIN, USER}

READ_DOCUMENT == "read_document"
WRITE_DOCUMENT == "write_document"
DELETE_DOCUMENT == "delete_document"
INGEST_DOCUMENT == "ingest_document"
CHAT == "chat"
CHAT_WITH_CONTEXT == "chat_with_context"
MANAGE_USERS == "manage_users"
MANAGE_MODELS == "manage_models"
VIEW_SYSTEM_LOGS == "view_system_logs"
MANAGE_SYSTEM == "manage_system"
MANAGE_PERMISSIONS == "manage_permissions"

Permission ==
    {READ_DOCUMENT, WRITE_DOCUMENT, DELETE_DOCUMENT, INGEST_DOCUMENT,
     CHAT, CHAT_WITH_CONTEXT, MANAGE_USERS, MANAGE_MODELS, VIEW_SYSTEM_LOGS,
     MANAGE_SYSTEM, MANAGE_PERMISSIONS}

(* a table in which the user role also manages users *)
ROLE_PERMISSIONS_user_manages ==
    [r \in UserRole |->
        CASE r = SUPERADMIN -> Permission
          [] r = ADMIN ->
               {READ_DOCUMENT, WRITE_DOCUMENT, DELETE_DOCUMENT, INGEST_DOCUMENT,
                CHAT, CHAT_WITH_CONTEXT, MANAGE_USERS, VIEW_SYSTEM_LOGS}
          [] r = USER ->
               {READ_DOCUMENT, CHAT, CHAT_WITH_CONTEXT, MANAGE_USERS}]

ROLE_PERMISSIONS ==
    [r \in UserRole |->
        CASE r = SUPERADMIN ->
               {READ_DOCUMENT, WRITE_DOCUMENT, DELETE_DOCUMENT, INGEST_DOCUMENT,
                CHAT, CHAT_WITH_CONTEXT, MANAGE_USERS, MANAGE_MODELS,
                VIEW_SYSTEM_LOGS, MANAGE_SYSTEM, MANAGE_PERMISSIONS}
          [] r = ADMIN ->
               {READ_DOCUMENT, WRITE_DOCUMENT, DELETE_DOCUMENT, INGEST_DOCUMENT,
                CHAT, CHAT_WITH_CONTEXT, MANAGE_USERS, VIEW_SYSTEM_LOGS}
          [] r = USER ->
               {READ_DOCUMENT, CHAT, CHAT_WITH_CONTEXT}]

----------------------------------------------------------------------------
(* Input universes *)

Usernames == {"superadmin", "alice"}

Emails == {"superadmin@privategpt.local", "alice@example.org"}

Passwords == {"admin123!", "longpw1234"}

Clients == {"c1", "c2", "c3", "c4"}

UserIds == 1..MaxUserId

DocIds == {"d1", "d2"}

Filenames == {"notes.txt"}

----------------------------------------------------------------------------
(* AuthService: credentials *)

hash_password(password) == <<"bcrypt", password>>

verify_password(plain_password, hashed_password) ==
    hashed_password = hash_password(plain_password)

get_user_by_username(username) == {u \in users : u.username = username}

get_user_by_id(user_id) == {u \in users : u.id = user_id}

MaxOf(S) == CHOOSE x \in S : \A y \in S : y <= x

next_user_id == IF users = {} THEN 1 ELSE MaxOf({u.id : u \in users}) + 1

(* a creation that does not look for the username or the email *)
create_user_unchecked(user_data) ==
    users \cup {[id |-> next_user_id,
                 username |-> user_data.username,
                 email |-> user_data.email,
                 hashed_password |-> hash_password(user_data.password),
                 role |-> user_data.role,
                 is_active |-> TRUE]}

create_user(user_data) ==
    IF \E u \in users : u.username = user_data.username \/ u.email = user_data.email
    THEN users
    ELSE users \cup {[id |-> next_user_id,
                      username |-> user_data.username,
                      email |-> user_data.email,
                      hashed_password |-> hash_password(user_data.password),
                      role |-> user_data.role,
                      is_active |-> TRUE]}

authenticate_user(username, password) ==
    {u \in get_user_by_username(username) :
        verify_password(password, u.hashed_password)}

get_user_permissions(user) == ROLE_PERMISSIONS[user.role]

has_permission(user, permission) == permission \in get_user_permissions(user)

(* jwt: a token carries its claims and a signature over them made with    *)
(* the key; decoding checks the signature, then the exp claim against the *)
(* clock, and gives the claims back.  exp is encoded as a number on the   *)
(* clock's scale, which the model counts in minutes.                      *)
secret_key == "your-secret-key-change-in-production"

algorithm == "HS256"

jwt_sign(claims, key, alg) == <<alg, key, claims>>

jwt_encode(to_encode, key, alg) ==
    [sub |-> to_encode.sub,
     user_id |-> to_encode.user_id,
     role |-> to_encode.role,
     permissions |-> to_encode.permissions,
     exp |-> to_encode.exp,
     signature |-> jwt_sign(to_encode, key, alg)]

jwt_claims(token) ==
    [sub |-> token.sub,
     user_id |-> token.user_id,
     role |-> token.role,
     permissions |-> token.permissions,
     exp |-> token.exp]

jwt_decode(token, key, alg) ==
    IF /\ token.signature = jwt_sign(jwt_claims(token), key, alg)
       /\ token.exp > now
    THEN {jwt_claims(token)}
    ELSE {}

create_access_token(user) ==
    LET permissions == get_user_permissions(user)
        expire == now + access_token_expire_minutes
        to_encode == [sub |-> user.username,
                      user_id |-> user.id,
                      role |-> user.role,
                      permissions |-> permissions,
                      exp |-> expire]
    IN jwt_encode(to_encode, secret_key, algorithm)

(* a verification that does not look at the exp claim *)
verify_token_any_age(token) ==
    IF token.signature = jwt_sign(jwt_claims(token), secret_key, algorithm)
    THEN {jwt_claims(token)}
    ELSE {}

verify_token(token) == jwt_decode(token, secret_key, algorithm)

(* update_data is a UserUpdate dumped with exclude_unset: each field is {}   *)
(* when unset and {value} when set.                                        *)
apply_update(user, update_data) ==
    [user EXCEPT
        !.username = IF update_data.username = {} THEN @
                     ELSE CHOOSE x \in update_data.username : TRUE,
        !.email = IF update_data.email = {} THEN @
                  ELSE CHOOSE x \in update_data.email : TRUE,
        !.role = IF update_data.role = {} THEN @
                 ELSE CHOOSE x \in update_data.role : TRUE,
        !.is_active = IF update_data.is_active = {} THEN @
                      ELSE CHOOSE x \in update_data.is_active : TRUE]

update_user(user_id, update_data) ==
    IF get_user_by_id(user_id) = {} THEN users
    ELSE LET user == CHOOSE u \in users : u.id = user_id
             updated == apply_update(user, update_data)
         IN IF \E o \in users \ {user} :
                    o.username = updated.username \/ o.email = updated.email
            THEN users
            ELSE (users \ {user}) \cup {updated}

(* the delete of a User sets the owner_id of its documents and the user_id *)
(* of its user_model_access rows to NULL, which both columns forbid        *)
delete_user(user_id) ==
    IF \/ \E d \in documents : d.owner_id = user_id
       \/ \E a \in BagToSet(user_model_access) : a.user_id = user_id
    THEN users
    ELSE {u \in users : u.id # user_id}

(* the clock of datetime.now moves on *)
Tick ==
    /\ now < MaxNow
    /\ now' = now + 1
    /\ UNCHANGED <<users, tokens, documents, user_document_permissions,
                   chat_call, ingested, llm_models, user_model_access,
                   grant_sessions, model_grant_sessions>>

----------------------------------------------------------------------------
(* auth.py: request dependencies; a request carries the client's token *)

get_current_user(credentials) ==
    {u \in users :
        \E t \in credentials : \E token_data \in verify_token(t) :
            /\ token_data.sub # ""
            /\ u \in get_user_by_username(token_data.sub)
            /\ u.is_active}

(* a permission check that trusts the snapshot carried by the token *)
require_permission_snapshot(credentials, permission) ==
    {u \in get_current_user(credentials) :
        \E t \in credentials : permission \in t.permissions}

(* a permission check that lets every authenticated user pass *)
require_permission_unchecked(credentials, permission) ==
    get_current_user(credentials)

require_permission(credentials, permission) ==
    {u \in get_current_user(credentials) : has_permission(u, permission)}

(* the answer of a route that depends on require_permission: 401 from      *)
(* get_current_user, 403 from the permission check                         *)
require_permission_status(credentials, permission) ==
    IF get_current_user(credentials) = {} THEN 401
    ELSE IF require_permission(credentials, permission) = {} THEN 403
    ELSE 200

require_role(credentials, allowed_roles) ==
    {u \in get_current_user(credentials) : u.role \in allowed_roles}

require_admin(credentials) == require_role(credentials, {ADMIN, SUPERADMIN})

require_superadmin(credentials) == require_role(credentials, {SUPERADMIN})

----------------------------------------------------------------------------
(* auth_router.py: login and user management *)

Login(c, username, password) ==
    /\ LET user == authenticate_user(username, password)
       IN IF user = {}
          THEN UNCHANGED tokens
          ELSE tokens' = [tokens EXCEPT
                            ![c] = {create_access_token(CHOOSE u \in user : TRUE)}]
    /\ UNCHANGED <<users, now, documents, user_document_permissions, chat_call,
                 ingested, llm_models, user_model_access, grant_sessions,
                 model_grant_sessions>>

(* the answer of the login route: its status code and, for a refusal, the  *)
(* detail text of the HTTPException                                        *)
login_answer(status_code, detail) ==
    [status_code |-> status_code, detail |-> detail]

(* a login that tells an unknown username from a wrong password *)
login_outcome_named(username, password) ==
    IF get_user_by_username(username) = {}
    THEN login_answer(404, "User not found")
    ELSE IF authenticate_user(username, password) = {}
         THEN login_answer(401, "Incorrect username or password")
         ELSE login_answer(200, "")

login_outcome(username, password) ==
    IF authenticate_user(username, password) = {}
    THEN login_answer(401, "Incorrect username or password")
    ELSE login_answer(200, "")

(* the answers of the user routes: 400 for the ValueError of create_user,  *)
(* 404 for a missing id, 500 for the commit that the unique constraints   *)
(* of users reject                                                        *)
create_user_status(c, user_data) ==
    IF get_current_user(tokens[c]) = {} THEN 401
    ELSE IF require_admin(tokens[c]) = {} THEN 403
    ELSE IF \E u \in users : u.username = user_data.username
                               \/ u.email = user_data.email
         THEN 400
    ELSE 200

update_user_status(c, user_id, update_data) ==
    IF get_current_user(tokens[c]) = {} THEN 401
    ELSE IF require_admin(tokens[c]) = {} THEN 403
    ELSE IF get_user_by_id(user_id) = {} THEN 404
    ELSE IF \E user \in get_user_by_id(user_id) : \E o \in users \ {user} :
               \/ o.username = apply_update(user, update_data).username
               \/ o.email = apply_update(user, update_data).email
         THEN 500
    ELSE 200

CreateUser(user_data) ==
    /\ \E c \in Clients : require_admin(tokens[c]) # {}
    /\ next_user_id <= MaxUserId
    /\ users' = create_user(user_data)
    /\ UNCHANGED <<tokens, now, documents, user_document_permissions, chat_call,
                 ingested, llm_models, user_model_access, grant_sessions,
                 model_grant_sessions>>

UpdateUser(user_id, update_data) ==
    /\ \E c \in Clients : require_admin(tokens[c]) # {}
    /\ users' = update_user(user_id, update_data)
    /\ UNCHANGED <<tokens, now, documents, user_document_permissions, chat_call,
                 ingested, llm_models, user_model_access, grant_sessions,
                 model_grant_sessions>>

DeleteUser(user_id) ==
    /\ \E c \in Clients : require_superadmin(tokens[c]) # {}
    /\ users' = delete_user(user_id)
    /\ UNCHANGED <<tokens, now, documents, user_document_permissions, chat_call,
                 ingested, llm_models, user_model_access, grant_sessions,
                 model_grant_sessions>>

----------------------------------------------------------------------------
(* AuthService: documents and the user_document_permissions table, which   *)
(* has no key: it is a bag of rows [user_id, document_id, permission]      *)

get_document(document_id) == {d \in documents : d.id = document_id}

grant_rows == BagToSet(user_document_permissions)

(* a lookup of the grant that forgets the permission column *)
can_access_document_any_permission(user, document_id, permission) ==
    IF get_document(document_id) = {} THEN FALSE
    ELSE LET document == CHOOSE d \in documents : d.id = document_id
         IN IF user.role = SUPERADMIN THEN TRUE
            ELSE IF document.owner_id = user.id THEN TRUE
            ELSE IF document.is_public /\ permission = READ_DOCUMENT
                 THEN has_permission(user, READ_DOCUMENT)
            ELSE \E r \in grant_rows :
                    /\ r.user_id = user.id
                    /\ r.document_id = document_id

can_access_document(user, document_id, permission) ==
    IF get_document(document_id) = {} THEN FALSE
    ELSE LET document == CHOOSE d \in documents : d.id = document_id
         IN IF user.role = SUPERADMIN THEN TRUE
            ELSE IF document.owner_id = user.id THEN TRUE
            ELSE IF document.is_public /\ permission = READ_DOCUMENT
                 THEN has_permission(user, READ_DOCUMENT)
            ELSE \E r \in grant_rows :
                    /\ r.user_id = user.id
                    /\ r.document_id = document_id
                    /\ r.permission = permission

(* the rows of the table that the delete statement of grant and revoke keeps *)
delete_pair_rows(user_id, document_id) ==
    LET kept == {r \in grant_rows :
                    ~(r.user_id = user_id /\ r.document_id = document_id)}
    IN [r \in kept |-> user_document_permissions[r]]

(* one inserted row per element of the permissions list *)
insert_rows(user_id, document_id, permissions) ==
    LET rows == {[user_id |-> user_id, document_id |-> document_id,
                  permission |-> permissions[i]] : i \in DOMAIN permissions}
    IN [r \in rows |->
            Cardinality({i \in DOMAIN permissions : permissions[i] = r.permission})]

(* a grant that inserts without deleting the pair's rows first *)
grant_document_access_append(user_id, document_id, permissions) ==
    user_document_permissions (+) insert_rows(user_id, document_id, permissions)

grant_document_access(user_id, document_id, permissions) ==
    delete_pair_rows(user_id, document_id)
        (+) insert_rows(user_id, document_id, permissions)

revoke_document_access(user_id, document_id) ==
    delete_pair_rows(user_id, document_id)

(* a registration that overwrites the row of a registered id *)
create_document_record_overwrite(doc_id, filename, owner_id, is_public) ==
    {d \in documents : d.id # doc_id}
       \cup {[id |-> doc_id, filename |-> filename,
               owner_id |-> owner_id, is_public |-> is_public]}

create_document_record(doc_id, filename, owner_id, is_public) ==
    IF get_document(doc_id) # {} THEN documents
    ELSE documents \cup {[id |-> doc_id, filename |-> filename,
                          owner_id |-> owner_id, is_public |-> is_public]}

(* a listing that leaves out the documents reached through grants *)
get_user_accessible_documents_own_or_public(user) ==
    IF user.role = SUPERADMIN THEN documents
    ELSE {d \in documents : d.owner_id = user.id \/ d.is_public}

(* a listing that leaves out the public documents *)
get_user_accessible_documents_own_or_granted(user) ==
    IF user.role = SUPERADMIN THEN documents
    ELSE {d \in documents :
             \/ d.owner_id = user.id
             \/ \E r \in grant_rows :
                   r.user_id = user.id /\ r.document_id = d.id}

get_user_accessible_documents(user) ==
    IF user.role = SUPERADMIN THEN documents
    ELSE LET owned_docs == {d \in documents : d.owner_id = user.id}
             public_docs == {d \in documents : d.is_public}
             permitted_doc_ids == {r.document_id : r \in
                                     {x \in grant_rows : x.user_id = user.id}}
             permitted_docs == {d \in documents : d.id \in permitted_doc_ids}
         IN owned_docs \cup public_docs \cup permitted_docs

----------------------------------------------------------------------------
(* auth_router.py: document grants *)

GrantDocumentAccess(user_id, document_id, permissions) ==
    /\ \E c \in Clients : require_admin(tokens[c]) # {}
    /\ user_document_permissions' =
           grant_document_access(user_id, document_id, permissions)
    /\ UNCHANGED <<users, tokens, now, documents, chat_call,
                 ingested, llm_models, user_model_access, grant_sessions,
                 model_grant_sessions>>

RevokeDocumentAccess(document_id, user_id) ==
    /\ \E c \in Clients : require_admin(tokens[c]) # {}
    /\ user_document_permissions' = revoke_document_access(user_id, document_id)
    /\ UNCHANGED <<users, tokens, now, documents, chat_call,
                 ingested, llm_models, user_model_access, grant_sessions,
                 model_grant_sessions>>

----------------------------------------------------------------------------
(* AuthService: LLM models and the entitlements to them.  A row of         *)
(* user_model_access is kept as its (user_id, model_id) pair; the table    *)
(* has no unique constraint on the pair, so the rows form a bag.           *)

next_model_id ==
    IF llm_models = {} THEN 1 ELSE MaxOf({m.id : m \in llm_models}) + 1

create_llm_model(name, provider, model_path, description) ==
    IF \E m \in llm_models : m.name = name
    THEN llm_models
    ELSE llm_models \cup {[id |-> next_model_id,
                           name |-> name,
                           provider |-> provider,
                           model_path |-> model_path,
                           is_active |-> TRUE,
                           description |-> description]}

get_llm_models == {m \in llm_models : m.is_active}

model_access_rows == BagToSet(user_model_access)

(* a listing that forgets whose the entitlement is *)
get_user_accessible_models_of_anyone(user) ==
    IF user.role = SUPERADMIN THEN get_llm_models
    ELSE {m \in llm_models :
             /\ \E a \in model_access_rows : a.model_id = m.id
             /\ m.is_active}

get_user_accessible_models(user) ==
    IF user.role = SUPERADMIN THEN get_llm_models
    ELSE {m \in llm_models :
             /\ \E a \in model_access_rows :
                   a.model_id = m.id /\ a.user_id = user.id
             /\ m.is_active}

UserModelAccess(user_id, model_id) ==
    [user_id |-> user_id, model_id |-> model_id]

(* a grant that inserts without looking for the row *)
grant_model_access_unchecked(user_id, model_id) ==
    user_model_access (+) SetToBag({UserModelAccess(user_id, model_id)})

grant_model_access(user_id, model_id) ==
    IF UserModelAccess(user_id, model_id) \in model_access_rows
    THEN user_model_access
    ELSE user_model_access (+) SetToBag({UserModelAccess(user_id, model_id)})

revoke_model_access(user_id, model_id) ==
    IF UserModelAccess(user_id, model_id) \in model_access_rows
    THEN user_model_access (-) SetToBag({UserModelAccess(user_id, model_id)})
    ELSE user_model_access

CreateLLMModel(model_data) ==
    /\ \E c \in Clients : require_superadmin(tokens[c]) # {}
    /\ llm_models' = create_llm_model(model_data.name, model_data.provider,
                                      model_data.model_path,
                                      model_data.description)
    /\ UNCHANGED <<users, tokens, now, documents, user_document_permissions,
                   chat_call, ingested, user_model_access, grant_sessions,
                   model_grant_sessions>>

GrantModelAccess(user_id, model_id) ==
    /\ \E c \in Clients : require_admin(tokens[c]) # {}
    /\ user_model_access' = grant_model_access(user_id, model_id)
    /\ UNCHANGED <<users, tokens, now, documents, user_document_permissions,
                   chat_call, ingested, llm_models, grant_sessions,
                   model_grant_sessions>>

RevokeModelAccess(model_id, user_id) ==
    /\ \E c \in Clients : require_admin(tokens[c]) # {}
    /\ user_model_access' = revoke_model_access(user_id, model_id)
    /\ UNCHANGED <<users, tokens, now, documents, user_document_permissions,
                   chat_call, ingested, llm_models, grant_sessions,
                   model_grant_sessions>>

----------------------------------------------------------------------------
(* grant_document_access statement by statement, one database session per  *)
(* request (database.py get_db).  SessionLocal has autocommit=False: the   *)
(* DELETE and the INSERTs of a grant stay in the session's transaction     *)
(* and reach the table, which every other session reads, at the one commit *)
(* that ends the method.  SQLite lets one connection write at a time: the  *)
(* first write statement of a transaction takes the lock and the commit    *)
(* gives it back, a second writer waits meanwhile.                         *)

Sessions == {"s1", "s2"}

no_transaction ==
    [pc |-> "idle", user_id |-> 0, document_id |-> "", permissions |-> <<>>,
     i |-> 0, deleted |-> EmptyBag, inserted |-> EmptyBag]

pair_rows(user_id, document_id) ==
    user_document_permissions (-) delete_pair_rows(user_id, document_id)

(* a store without the writer lock *)
write_lock_free_always(s) == TRUE

write_lock_free(s) ==
    \A o \in Sessions \ {s} : grant_sessions[o].pc # "inserting"

(* a session whose statements reach the table at once *)
table_after_delete_autocommit(table, matched) == table (-) matched

table_after_delete(table, matched) == table

GrantDelete(s, user_id, document_id, permissions) ==
    /\ \E c \in Clients : require_admin(tokens[c]) # {}
    /\ grant_sessions[s].pc # "inserting"
    /\ write_lock_free(s)
    /\ LET matched == pair_rows(user_id, document_id)
       IN /\ grant_sessions' =
                [grant_sessions EXCEPT ![s] =
                    [pc |-> "inserting", user_id |-> user_id,
                     document_id |-> document_id, permissions |-> permissions,
                     i |-> 0, deleted |-> matched, inserted |-> EmptyBag]]
          /\ user_document_permissions' =
                table_after_delete(user_document_permissions, matched)
    /\ UNCHANGED <<users, tokens, now, documents, chat_call,
                   ingested, llm_models, user_model_access,
                   model_grant_sessions>>

GrantInsert(s) ==
    LET t == grant_sessions[s]
    IN /\ t.pc = "inserting"
       /\ t.i < Len(t.permissions)
       /\ grant_sessions' =
             [grant_sessions EXCEPT ![s] =
                 [t EXCEPT !.i = t.i + 1,
                           !.inserted = t.inserted (+) SetToBag(
                               {[user_id |-> t.user_id,
                                 document_id |-> t.document_id,
                                 permission |-> t.permissions[t.i + 1]]})]]
       /\ UNCHANGED <<users, tokens, now, documents,
                      user_document_permissions, chat_call,
                      ingested, llm_models, user_model_access,
                      model_grant_sessions>>

GrantCommit(s) ==
    LET t == grant_sessions[s]
    IN /\ t.pc = "inserting"
       /\ t.i = Len(t.permissions)
       /\ user_document_permissions' =
             (user_document_permissions (-) t.deleted) (+) t.inserted
       /\ grant_sessions' =
             [grant_sessions EXCEPT ![s] =
                 [t EXCEPT !.pc = "committed", !.i = 0,
                           !.deleted = EmptyBag, !.inserted = EmptyBag]]
       /\ UNCHANGED <<users, tokens, now, documents, chat_call,
                      ingested, llm_models, user_model_access,
                      model_grant_sessions>>

----------------------------------------------------------------------------
(* enhanced_chat_router.py: the listing of the models of the caller.  The  *)
(* loop reads the attribute model_id of each LLMModel row; a row has the   *)
(* columns of models.py LLMModel, and the read of an attribute it lacks    *)
(* raises, which the handler answers with the default entry.  The provider *)
(* and the name of an entry are the parts of its id around the first ':'.  *)

LLMModelColumns ==
    {"id", "name", "provider", "model_path", "is_active", "description"}

default_model_entry == [id |-> "default:llamacpp", available |-> TRUE]

get_available_models(current_user) ==
    LET user_models == get_user_accessible_models(current_user)
        raised == user_models # {} /\ "model_id" \notin LLMModelColumns
        models_list == {[id |-> model.model_id, available |-> TRUE] :
                           model \in user_models}
    IN IF raised THEN {default_model_entry}
       ELSE IF models_list = {} THEN {default_model_entry}
       ELSE models_list

----------------------------------------------------------------------------
(* grant_model_access statement by statement, one database session per     *)
(* request, the requests running on the threads of the server: the query   *)
(* for the row is one statement, and the INSERT is sent with the commit    *)
(* that follows it, under the writer lock of the store.  The query opens   *)
(* no transaction on the store, so the commit of another session may fall  *)
(* between the two.                                                        *)

no_model_grant == [pc |-> "idle", user_id |-> 0, model_id |-> 0, existing |-> FALSE]

ModelGrantQuery(s, user_id, model_id) ==
    /\ \E c \in Clients : require_admin(tokens[c]) # {}
    /\ model_grant_sessions[s].pc = "idle"
    /\ model_grant_sessions' =
          [model_grant_sessions EXCEPT ![s] =
              [pc |-> "queried", user_id |-> user_id, model_id |-> model_id,
               existing |-> UserModelAccess(user_id, model_id)
                               \in model_access_rows]]
    /\ UNCHANGED <<users, tokens, now, documents, user_document_permissions,
                   chat_call, ingested, llm_models, user_model_access,
                   grant_sessions>>

ModelGrantCommit(s) ==
    LET t == model_grant_sessions[s]
    IN /\ t.pc = "queried"
       /\ user_model_access' =
             IF t.existing THEN user_model_access
             ELSE user_model_access
                     (+) SetToBag({UserModelAccess(t.user_id, t.model_id)})
       /\ model_grant_sessions' =
             [model_grant_sessions EXCEPT ![s] = no_model_grant]
       /\ UNCHANGED <<users, tokens, now, documents, user_document_permissions,
                      chat_call, ingested, llm_models, grant_sessions>>

----------------------------------------------------------------------------
(* enhanced_ingest_router.py: the ingestion service names the document id *)

(* IngestService: the content under doc_id is stored, and removed by delete *)
ingest_bin_data(doc_id) == ingested \cup {doc_id}

ingest_text(doc_id) == ingested \cup {doc_id}

delete(doc_id) == ingested \ {doc_id}

(* the HTTP status each handler answers with in the current state; a     *)
(* second record under a registered id fails in the commit of             *)
(* create_document_record (primary key of documents) and is not caught    *)
enhanced_ingest_file_status(c, doc_id) ==
    IF get_current_user(tokens[c]) = {} THEN 401
    ELSE IF require_permission(tokens[c], INGEST_DOCUMENT) = {} THEN 403
    ELSE IF get_document(doc_id) # {} THEN 500
    ELSE 200

enhanced_ingest_text_status(c, file_name, doc_id) ==
    IF get_current_user(tokens[c]) = {} THEN 401
    ELSE IF require_permission(tokens[c], INGEST_DOCUMENT) = {} THEN 403
    ELSE IF file_name = "" THEN 400
    ELSE IF get_document(doc_id) # {} THEN 500
    ELSE 200

EnhancedIngestFile(c, filename, doc_id, is_public) ==
    /\ \E current_user \in require_permission(tokens[c], INGEST_DOCUMENT) :
          /\ ingested' = ingest_bin_data(doc_id)
          /\ documents' = create_document_record(doc_id, filename,
                                                 current_user.id, is_public)
    /\ UNCHANGED <<users, tokens, now, user_document_permissions, chat_call,
                 llm_models, user_model_access, grant_sessions,
                 model_grant_sessions>>

EnhancedIngestText(c, file_name, doc_id, is_public) ==
    /\ file_name # ""
    /\ \E current_user \in require_permission(tokens[c], INGEST_DOCUMENT) :
          /\ ingested' = ingest_text(doc_id)
          /\ documents' = create_document_record(doc_id, file_name,
                                                 current_user.id, is_public)
    /\ UNCHANGED <<users, tokens, now, user_document_permissions, chat_call,
                 llm_models, user_model_access, grant_sessions,
                 model_grant_sessions>>

delete_document_record(doc_id) == {d \in documents : d.id # doc_id}

(* a delete guard that lets the role's delete_document permission pass *)
enhanced_delete_ingested_status_by_role(c, doc_id) ==
    IF get_current_user(tokens[c]) = {} THEN 401
    ELSE IF \E current_user \in get_current_user(tokens[c]) :
               \/ has_permission(current_user, DELETE_DOCUMENT)
               \/ can_access_document(current_user, doc_id, DELETE_DOCUMENT)
               \/ \E doc_record \in get_document(doc_id) :
                     doc_record.owner_id = current_user.id
         THEN 200
    ELSE 403

enhanced_delete_ingested_status(c, doc_id) ==
    IF get_current_user(tokens[c]) = {} THEN 401
    ELSE IF \E current_user \in get_current_user(tokens[c]) :
               \/ can_access_document(current_user, doc_id, DELETE_DOCUMENT)
               \/ \E doc_record \in get_document(doc_id) :
                     doc_record.owner_id = current_user.id
         THEN 200
    ELSE 403

EnhancedDeleteIngested(c, doc_id) ==
    /\ enhanced_delete_ingested_status(c, doc_id) = 200
    /\ ingested' = delete(doc_id)
    /\ documents' = delete_document_record(doc_id)
    /\ UNCHANGED <<users, tokens, now, user_document_permissions, chat_call,
                 llm_models, user_model_access, grant_sessions,
                 model_grant_sessions>>

(* a visibility guard that also lets the administrators pass *)
update_document_visibility_status_admin(c, doc_id) ==
    IF get_current_user(tokens[c]) = {} THEN 401
    ELSE IF get_document(doc_id) = {} THEN 404
    ELSE IF \E current_user \in get_current_user(tokens[c]) :
               \E doc_record \in get_document(doc_id) :
                  /\ doc_record.owner_id # current_user.id
                  /\ current_user.role \notin {ADMIN, SUPERADMIN}
         THEN 403
    ELSE 200

update_document_visibility_status(c, doc_id) ==
    IF get_current_user(tokens[c]) = {} THEN 401
    ELSE IF get_document(doc_id) = {} THEN 404
    ELSE IF \E current_user \in get_current_user(tokens[c]) :
               \E doc_record \in get_document(doc_id) :
                  doc_record.owner_id # current_user.id
         THEN 403
    ELSE 200

UpdateDocumentVisibility(c, doc_id, is_public) ==
    /\ update_document_visibility_status(c, doc_id) = 200
    /\ \E doc_record \in get_document(doc_id) :
          documents' = (documents \ {doc_record})
                 \cup {[doc_record EXCEPT !.is_public = is_public]}
    /\ UNCHANGED <<users, tokens, now, user_document_permissions, chat_call,
                 ingested, llm_models, user_model_access, grant_sessions,
                 model_grant_sessions>>

----------------------------------------------------------------------------
(* enhanced_chat_router.py: a context filter is {} when absent and         *)
(* {[docs_ids |-> S]} when present; the list of ids is taken as the set S   *)
(* the code turns it into                                                  *)

ContextFilter(docs_ids) == [docs_ids |-> docs_ids]

(* a narrowing that hands the requested ids on without intersecting them *)
narrow_context_filter_unfiltered(current_user, use_context, context_filter) ==
    IF use_context /\ context_filter # {}
    THEN LET accessible_docs == get_user_accessible_documents(current_user)
             accessible_doc_ids == {doc.id : doc \in accessible_docs}
             requested == (CHOOSE f \in context_filter : TRUE).docs_ids
         IN IF requested # {}
            THEN {ContextFilter(requested)}
            ELSE {ContextFilter(accessible_doc_ids)}
    ELSE context_filter

narrow_context_filter(current_user, use_context, context_filter) ==
    IF use_context /\ context_filter # {}
    THEN LET accessible_docs == get_user_accessible_documents(current_user)
             accessible_doc_ids == {doc.id : doc \in accessible_docs}
             requested == (CHOOSE f \in context_filter : TRUE).docs_ids
         IN IF requested # {}
            THEN {ContextFilter(requested \cap accessible_doc_ids)}
            ELSE {ContextFilter(accessible_doc_ids)}
    ELSE context_filter

EnhancedChatCompletion(c, body) ==
    /\ chat_call = {}
    /\ \E current_user \in get_current_user(tokens[c]) :
          /\ has_permission(current_user,
                IF body.use_context THEN CHAT_WITH_CONTEXT ELSE CHAT)
          /\ chat_call' =
               {[user_id |-> current_user.id,
                 use_context |-> body.use_context,
                 requested |-> body.context_filter,
                 context_filter |-> narrow_context_filter(current_user,
                                        body.use_context, body.context_filter)]}
    /\ UNCHANGED <<users, tokens, now, documents, user_document_permissions,
                 ingested, llm_models, user_model_access, grant_sessions,
                 model_grant_sessions>>

(* the chat service returns and the response is sent *)
ChatCompletionReturns ==
    /\ chat_call # {}
    /\ chat_call' = {}
    /\ UNCHANGED <<users, tokens, now, documents, user_document_permissions,
                 ingested, llm_models, user_model_access, grant_sessions,
                 model_grant_sessions>>

----------------------------------------------------------------------------
(* database.py: init_db creates the default superadmin *)

init_db ==
    {[id |-> 1,
      username |-> "superadmin",
      email |-> "superadmin@privategpt.local",
      hashed_password |-> hash_password("admin123!"),
      role |-> SUPERADMIN,
      is_active |-> TRUE]}

(* init_enhanced.py: setup_enhanced_private_gpt runs init_db,             *)
(* initialize_default_models and initialize_default_users at every start  *)
(* of the server (enhanced_launcher.py).  The steps are computed on the    *)
(* tables they are handed; raised records the ValueError of create_user,   *)
(* which ends the setup and leaves what was committed before it.           *)

superadmin_data ==
    [username |-> "superadmin", email |-> "superadmin@privategpt.local",
     password |-> "admin123!", role |-> SUPERADMIN]

admin_data ==
    [username |-> "admin", email |-> "admin@privategpt.local",
     password |-> "admin123!", role |-> ADMIN]

user_data ==
    [username |-> "user", email |-> "user@privategpt.local",
     password |-> "user123!", role |-> USER]

default_ollama_models ==
    <<[name |-> "llama3.1", provider |-> "ollama"],
      [name |-> "llama3.1:8b", provider |-> "ollama"],
      [name |-> "codellama", provider |-> "ollama"],
      [name |-> "nomic-embed-text", provider |-> "ollama"]>>

default_openai_models ==
    <<[name |-> "gpt-3.5-turbo", provider |-> "openai"],
      [name |-> "gpt-4", provider |-> "openai"],
      [name |-> "gpt-4-turbo", provider |-> "openai"]>>

(* the tables are empty of active models: every default model is created,  *)
(* with the ids the store gives in order                                   *)
initialize_default_models(models) ==
    IF {m \in models : m.is_active} # {} THEN models
    ELSE LET defaults == default_ollama_models \o default_openai_models
             first == IF models = {} THEN 1
                      ELSE MaxOf({m.id : m \in models}) + 1
         IN models \cup
               {[id |-> first + i - 1,
                 name |-> defaults[i].name,
                 provider |-> defaults[i].provider,
                 model_path |-> defaults[i].name,
                 is_active |-> TRUE,
                 description |-> defaults[i].name] :
                  i \in {j \in DOMAIN defaults :
                            \A m \in models : m.name # defaults[j].name}}

setup_state(us, models, access, raised) ==
    [users |-> us, llm_models |-> models, user_model_access |-> access,
     raised |-> raised]

(* one block of initialize_default_users: the account is created when no   *)
(* account has its username, and is granted the models chosen for it       *)
default_user(st, data, granted) ==
    IF st.raised \/ \E u \in st.users : u.username = data.username THEN st
    ELSE IF \E u \in st.users : u.email = data.email
         THEN [st EXCEPT !.raised = TRUE]
    ELSE LET id == IF st.users = {} THEN 1
                   ELSE MaxOf({u.id : u \in st.users}) + 1
             rows == {UserModelAccess(id, m.id) : m \in granted}
             fresh == rows \ BagToSet(st.user_model_access)
         IN [st EXCEPT
               !.users = @ \cup {[id |-> id,
                                  username |-> data.username,
                                  email |-> data.email,
                                  hashed_password |-> hash_password(data.password),
                                  role |-> data.role,
                                  is_active |-> TRUE]},
               !.user_model_access = @ (+) SetToBag(fresh)]

initialize_default_users(st) ==
    LET active == {m \in st.llm_models : m.is_active}
        s1 == default_user(st, superadmin_data, active)
        s2 == default_user(s1, admin_data,
                           {m \in active : m.provider = "ollama"})
    IN default_user(s2, user_data,
                    {m \in active : m.name \in {"llama3.1", "llama3.1:8b"}})

setup_enhanced_private_gpt ==
    LET s0 == default_user(setup_state(users, llm_models, user_model_access,
                                       FALSE),
                           superadmin_data, {})
        s1 == IF s0.raised THEN s0
              ELSE [s0 EXCEPT !.llm_models = initialize_default_models(@)]
    IN IF s1.raised THEN s1 ELSE initialize_default_users(s1)

SetupEnhancedPrivateGpt ==
    /\ next_user_id + 1 <= MaxSetupUserId
    /\ users' = setup_enhanced_private_gpt.users
    /\ llm_models' = setup_enhanced_private_gpt.llm_models
    /\ user_model_access' = setup_enhanced_private_gpt.user_model_access
    /\ UNCHANGED <<tokens, now, documents, user_document_permissions,
                   chat_call, ingested, grant_sessions, model_grant_sessions>>

Init ==
    /\ users = init_db
    /\ tokens = [c \in Clients |-> {}]
    /\ now = 0
    /\ documents = {}
    /\ user_document_permissions = EmptyBag
    /\ chat_call = {}
    /\ ingested = {}
    /\ llm_models = {}
    /\ user_model_access = EmptyBag
    /\ grant_sessions = [s \in Sessions |-> no_transaction]
    /\ model_grant_sessions = [s \in Sessions |-> no_model_grant]

----------------------------------------------------------------------------
(* The user-management specification: logins and user CRUD *)

AuthClients == {"c1", "c2"}

UserCreates ==
    [username : Usernames, email : Emails, password : {"longpw1234"}, role : UserRole]

Opt(S) == {{}} \cup {{x} : x \in S}

NoUpdate == [username |-> {}, email |-> {}, role |-> {}, is_active |-> {}]

(* the updates that set at most one of username, role and is_active *)
UserUpdates ==
    {NoUpdate}
    \cup {[NoUpdate EXCEPT !.username = {n}] : n \in Usernames}
    \cup {[NoUpdate EXCEPT !.role = {r}] : r \in UserRole}
    \cup {[NoUpdate EXCEPT !.is_active = {b}] : b \in BOOLEAN}

NextAuth ==
    \/ \E c \in AuthClients, n \in Usernames, p \in Passwords : Login(c, n, p)
    \/ \E d \in UserCreates : CreateUser(d)
    \/ \E i \in UserIds, d \in UserUpdates : UpdateUser(i, d)
    \/ \E i \in UserIds : DeleteUser(i)

SpecAuth == Init /\ [][NextAuth]_vars

----------------------------------------------------------------------------
(* The document specification: four accounts exist and are logged in, one  *)
(* client each; documents are ingested, shared, deleted and chatted over   *)

account(id, username, email, role) ==
    [id |-> id, username |-> username, email |-> email,
     hashed_password |-> hash_password("longpw1234"),
     role |-> role, is_active |-> TRUE]

alice == account(2, "alice", "alice@example.org", ADMIN)
bob == account(3, "bob", "bob@example.org", USER)
carol == account(4, "carol", "carol@example.org", USER)

holder(c) ==
    CASE c = "c1" -> CHOOSE u \in init_db : TRUE
      [] c = "c2" -> alice
      [] c = "c3" -> bob
      [] c = "c4" -> carol

InitDocs ==
    /\ users = init_db \cup {alice, bob, carol}
    /\ now = 0
    /\ tokens = [c \in Clients |-> {create_access_token(holder(c))}]
    /\ documents = {}
    /\ user_document_permissions = EmptyBag
    /\ chat_call = {}
    /\ ingested = {}
    /\ llm_models = {}
    /\ user_model_access = EmptyBag
    /\ grant_sessions = [s \in Sessions |-> no_transaction]
    /\ model_grant_sessions = [s \in Sessions |-> no_model_grant]

Grantees == {3, 4}

GrantPerms == {READ_DOCUMENT, WRITE_DOCUMENT}

SeqsUpTo(S, n) == UNION {[1..k -> S] : k \in 0..n}

NextDocs ==
    \/ \E c \in Clients, f \in Filenames, d \in DocIds, b \in BOOLEAN :
          EnhancedIngestFile(c, f, d, b)
    \/ \E c \in Clients, f \in Filenames, d \in DocIds, b \in BOOLEAN :
          EnhancedIngestText(c, f, d, b)
    \/ \E c \in Clients, d \in DocIds : EnhancedDeleteIngested(c, d)
    \/ \E c \in Clients, d \in DocIds, b \in BOOLEAN :
          UpdateDocumentVisibility(c, d, b)
    \/ \E u \in Grantees, d \in DocIds, p \in SeqsUpTo(GrantPerms, MaxSharedPerms) :
          GrantDocumentAccess(u, d, p)
    \/ \E u \in Grantees, d \in DocIds : RevokeDocumentAccess(d, u)

SpecDocs == InitDocs /\ [][NextDocs]_vars

----------------------------------------------------------------------------
(* The grant specification: the same accounts; grants of permission lists  *)
(* of up to MaxPermList entries, repeated entries included                 *)

GrantPairs == {<<3, "d1">>, <<4, "d1">>, <<3, "d2">>}

NextGrants ==
    \/ \E g \in GrantPairs, p \in SeqsUpTo(GrantPerms, MaxPermList) :
          GrantDocumentAccess(g[1], g[2], p)
    \/ \E g \in GrantPairs : RevokeDocumentAccess(g[2], g[1])

SpecGrants == InitDocs /\ [][NextGrants]_vars

----------------------------------------------------------------------------
(* The chat specification: the same accounts; requests are served one      *)
(* after another, and documents are shared with bob                        *)

ChatGrantees == {3}

ChatBodies ==
    [use_context : BOOLEAN,
     context_filter : {{}} \cup {{ContextFilter(S)} : S \in SUBSET DocIds}]

NextChat ==
    \/ /\ chat_call = {}
       /\ \/ \E c \in Clients, f \in Filenames, d \in DocIds, b \in BOOLEAN :
                EnhancedIngestText(c, f, d, b)
          \/ \E c \in Clients, d \in DocIds : EnhancedDeleteIngested(c, d)
          \/ \E c \in Clients, d \in DocIds, b \in BOOLEAN :
                UpdateDocumentVisibility(c, d, b)
          \/ \E u \in ChatGrantees, d \in DocIds,
                p \in SeqsUpTo(GrantPerms, MaxSharedPerms) :
                GrantDocumentAccess(u, d, p)
          \/ \E u \in ChatGrantees, d \in DocIds : RevokeDocumentAccess(d, u)
    \/ \E c \in Clients, b \in ChatBodies : EnhancedChatCompletion(c, b)
    \/ ChatCompletionReturns

SpecChat == InitDocs /\ [][NextChat]_vars

----------------------------------------------------------------------------
(* The grant-transaction specification: two sessions run                    *)
(* grant_document_access statement by statement on the pair of bob and d1, *)
(* which alice owns; every state is one a reader in another request may    *)
(* read                                                                     *)

InitGrantTx ==
    /\ users = init_db \cup {alice, bob, carol}
    /\ now = 0
    /\ tokens = [c \in Clients |-> {create_access_token(holder(c))}]
    /\ documents = {[id |-> "d1", filename |-> "notes.txt",
                     owner_id |-> 2, is_public |-> FALSE]}
    /\ user_document_permissions = EmptyBag
    /\ chat_call = {}
    /\ ingested = {"d1"}
    /\ llm_models = {}
    /\ user_model_access = EmptyBag
    /\ grant_sessions = [s \in Sessions |-> no_transaction]
    /\ model_grant_sessions = [s \in Sessions |-> no_model_grant]

TxPairs == {<<3, "d1">>}

NextGrantTx ==
    \/ \E s \in Sessions, g \in TxPairs,
          p \in SeqsUpTo(GrantPerms, MaxPermList) :
          GrantDelete(s, g[1], g[2], p)
    \/ \E s \in Sessions : GrantInsert(s)
    \/ \E s \in Sessions : GrantCommit(s)

SpecGrantTx == InitGrantTx /\ [][NextGrantTx]_vars

(* The ownership specification: two file names, registration by the       *)
(* accounts that may ingest, delete and visibility requests by every      *)
(* account, and grants of read_document or delete_document to bob         *)

OwnerFilenames == {"notes.txt", "plan.txt"}

OwnerGrantPerms == {READ_DOCUMENT, DELETE_DOCUMENT}

NextOwner ==
    \/ \E c \in Clients, f \in OwnerFilenames, d \in DocIds, b \in BOOLEAN :
          EnhancedIngestText(c, f, d, b)
    \/ \E c \in Clients, d \in DocIds : EnhancedDeleteIngested(c, d)
    \/ \E c \in Clients, d \in DocIds, b \in BOOLEAN :
          UpdateDocumentVisibility(c, d, b)
    \/ \E d \in DocIds, p \in SeqsUpTo(OwnerGrantPerms, MaxSharedPerms) :
          GrantDocumentAccess(3, d, p)
    \/ \E d \in DocIds : RevokeDocumentAccess(d, 3)

SpecOwner == InitDocs /\ [][NextOwner]_vars

(* The model-entitlement specification: the superadmin registers models,  *)
(* administrators grant and revoke them one request after another          *)

LLMModelCreates ==
    {[name |-> "llama3.1", provider |-> "ollama", model_path |-> "llama3.1",
      description |-> "Meta's Llama 3.1 model via Ollama"],
     [name |-> "gpt-4", provider |-> "openai", model_path |-> "gpt-4",
      description |-> "OpenAI GPT-4 model"]}

ModelIds == 1..MaxModelId

ModelGrantees == {1, 2, 3}

NextModels ==
    \/ \E d \in LLMModelCreates : CreateLLMModel(d)
    \/ \E u \in ModelGrantees, m \in ModelIds : GrantModelAccess(u, m)
    \/ \E u \in ModelGrantees, m \in ModelIds : RevokeModelAccess(m, u)

SpecModels == InitDocs /\ [][NextModels]_vars

(* The token specification: one client logs in as any of the four         *)
(* accounts while the clock runs past the lifetime of a token             *)

AccountNames == {"superadmin", "alice", "bob", "carol"}

InitToken ==
    /\ users = init_db \cup {alice, bob, carol}
    /\ tokens = [c \in Clients |-> {}]
    /\ now = 0
    /\ documents = {}
    /\ user_document_permissions = EmptyBag
    /\ chat_call = {}
    /\ ingested = {}
    /\ llm_models = {}
    /\ user_model_access = EmptyBag
    /\ grant_sessions = [s \in Sessions |-> no_transaction]
    /\ model_grant_sessions = [s \in Sessions |-> no_model_grant]

NextToken ==
    \/ \E n \in AccountNames, p \in Passwords : Login("c1", n, p)
    \/ Tick

SpecToken == InitToken /\ [][NextToken]_vars

(* The account specification: one client logs in, accounts are created,   *)
(* renamed, given another email and deleted                               *)

UserIdentityUpdates ==
    {NoUpdate}
    \cup {[NoUpdate EXCEPT !.username = {n}] : n \in Usernames}
    \cup {[NoUpdate EXCEPT !.email = {e}] : e \in Emails}

NextUsers ==
    \/ \E n \in Usernames, p \in Passwords : Login("c1", n, p)
    \/ \E d \in UserCreates : CreateUser(d)
    \/ \E i \in UserIds, d \in UserIdentityUpdates : UpdateUser(i, d)
    \/ \E i \in UserIds : DeleteUser(i)

SpecUsers == Init /\ [][NextUsers]_vars

(* The setup specification: the server is set up on an empty store and    *)
(* set up again at later starts; in between the superadmin logs in,       *)
(* revokes entitlements and deletes accounts                              *)

InitSetup ==
    /\ users = {}
    /\ tokens = [c \in Clients |-> {}]
    /\ now = 0
    /\ documents = {}
    /\ user_document_permissions = EmptyBag
    /\ chat_call = {}
    /\ ingested = {}
    /\ llm_models = {}
    /\ user_model_access = EmptyBag
    /\ grant_sessions = [s \in Sessions |-> no_transaction]
    /\ model_grant_sessions = [s \in Sessions |-> no_model_grant]

SetupModelIds == {1, 2}

NextSetup ==
    \/ SetupEnhancedPrivateGpt
    \/ \E p \in Passwords : Login("c1", "superadmin", p)
    \/ \E u \in 1..MaxSetupUserId, m \in SetupModelIds :
          RevokeModelAccess(m, u)
    \/ \E u \in 1..MaxSetupUserId : DeleteUser(u)

SpecSetup == InitSetup /\ [][NextSetup]_vars

(* The concurrent model-grant specification: one model exists, the        *)
(* accounts are logged in, and two sessions grant and revoke the           *)
(* entitlements of bob and carol to it                                     *)

InitModelTx ==
    /\ users = init_db \cup {alice, bob, carol}
    /\ now = 0
    /\ tokens = [c \in Clients |-> {create_access_token(holder(c))}]
    /\ documents = {}
    /\ user_document_permissions = EmptyBag
    /\ chat_call = {}
    /\ ingested = {}
    /\ llm_models = {[id |-> 1, name |-> "llama3.1", provider |-> "ollama",
                      model_path |-> "llama3.1", is_active |-> TRUE,
                      description |-> "llama3.1"]}
    /\ user_model_access = EmptyBag
    /\ grant_sessions = [s \in Sessions |-> no_transaction]
    /\ model_grant_sessions = [s \in Sessions |-> no_model_grant]

TxModelPairs == {<<3, 1>>, <<4, 1>>}

NextModelTx ==
    \/ \E s \in Sessions, g \in TxModelPairs : ModelGrantQuery(s, g[1], g[2])
    \/ \E s \in Sessions : ModelGrantCommit(s)
    \/ \E g \in TxModelPairs : RevokeModelAccess(g[2], g[1])

SpecModelTx == InitModelTx /\ [][NextModelTx]_vars

----------------------------------------------------------------------------
(* Properties *)

AllClientTokens == UNION {tokens[c] : c \in Clients}

accessible_ids(user_id) ==
    UNION {{d.id : d \in get_user_accessible_documents(u)} :
              u \in get_user_by_id(user_id)}

ChatStep == chat_call = {} /\ chat_call' # {}

granted_permissions(user_id, document_id) ==
    {r.permission : r \in {x \in grant_rows :
                              x.user_id = user_id /\ x.document_id = document_id}}

Range(f) == {f[i] : i \in DOMAIN f}

(* C1: every chat completion with use_context hands the chat service a     *)
(* context filter that is present and whose document ids are all among the *)
(* caller's accessible documents.                                          *)
C1_ContextRestricted ==
    [][ChatStep =>
         \A call \in chat_call' :
            call.use_context =>
               /\ call.context_filter # {}
               /\ \A f \in call.context_filter :
                     f.docs_ids \subseteq accessible_ids(call.user_id)]_vars

(* C2: can_access_document is false for an unregistered document, and      *)
(* otherwise true exactly for a superadmin, the owner, a reader of a       *)
(* public document whose role carries read_document, or the holder of a    *)
(* grant row for that very permission.                                     *)
C2_CanAccess ==
    \A u \in users : \A id \in DocIds : \A p \in Permission :
       can_access_document(u, id, p) <=>
          \E d \in documents :
             /\ d.id = id
             /\ \/ u.role = SUPERADMIN
                \/ d.owner_id = u.id
                \/ /\ d.is_public
                   /\ p = READ_DOCUMENT
                   /\ READ_DOCUMENT \in ROLE_PERMISSIONS[u.role]
                \/ [user_id |-> u.id, document_id |-> id, permission |-> p]
                      \in grant_rows

(* C2 witness: a public document of alice with a single grant row, read to *)
(* bob: carol, who has no grant, may read it and may not write it, and bob *)
(* may not write it either.                                                *)
C2_Witness ==
    \E d \in documents : \E a, b, c \in users :
       /\ d.is_public /\ d.owner_id = a.id
       /\ a.role # SUPERADMIN /\ b.role # SUPERADMIN /\ c.role # SUPERADMIN
       /\ a # b /\ a # c /\ b # c
       /\ {r \in grant_rows : r.document_id = d.id} =
             {[user_id |-> b.id, document_id |-> d.id,
               permission |-> READ_DOCUMENT]}
       /\ can_access_document(a, d.id, DELETE_DOCUMENT)
       /\ can_access_document(b, d.id, READ_DOCUMENT)
       /\ ~can_access_document(b, d.id, WRITE_DOCUMENT)
       /\ can_access_document(c, d.id, READ_DOCUMENT)
       /\ ~can_access_document(c, d.id, WRITE_DOCUMENT)

(* C3: a token whose account (the user id it was issued to) is now absent  *)
(* or inactive does not authenticate.                                      *)
C3_GoneAccountRejected ==
    \A t \in AllClientTokens :
       (~\E u \in users : u.id = t.user_id /\ u.is_active)
          => get_current_user({t}) = {}

(* C4: authenticate_user never returns an inactive user, and no login      *)
(* hands a client a token of a user who is inactive.                       *)
C4_InactiveLoginRejected ==
    [][/\ \A u \in users : \A p \in Passwords :
             ~u.is_active => u \notin authenticate_user(u.username, p)
       /\ \A c \in Clients :
             tokens'[c] # tokens[c] =>
                \A t \in tokens'[c] : \A u \in users :
                   u.id = t.user_id => u.is_active]_vars

C6_NarrowIntersects ==
    [][ChatStep =>
         \A call \in chat_call' : \A f \in call.requested :
            (call.use_context /\ f.docs_ids # {}) =>
               call.context_filter =
                  {ContextFilter(f.docs_ids \cap accessible_ids(call.user_id))}]_vars

(* C6 witness: bob asked for d1 alone, a private document of someone else  *)
(* with no grant to bob, and the filter handed on is present and empty.    *)
C6_Witness ==
    \E call \in chat_call :
       /\ call.use_context
       /\ call.user_id = 3
       /\ call.requested = {ContextFilter({"d1"})}
       /\ call.context_filter = {ContextFilter({})}
       /\ \E d \in documents : d.id = "d1" /\ ~d.is_public /\ d.owner_id # 3
       /\ granted_permissions(3, "d1") = {}
       /\ accessible_ids(3) # {}

(* C7: a chat completion with use_context and an absent filter or an empty *)
(* requested id list hands on exactly the ids of the caller's accessible   *)
(* documents.                                                              *)
C7_NarrowDefaultsToAccessible ==
    [][ChatStep =>
         \A call \in chat_call' :
            (/\ call.use_context
             /\ \A f \in call.requested : f.docs_ids = {}) =>
               call.context_filter =
                  {ContextFilter(accessible_ids(call.user_id))}]_vars

(* C8: when a document row is deleted, no grant row for its id remains.    *)
C8_DeleteCascades ==
    [][\A d \in documents :
          (\A e \in documents' : e.id # d.id) =>
             \A r \in BagToSet(user_document_permissions') :
                r.document_id # d.id]_vars

(* C9: the grant table holds at most one row per (user, document,          *)
(* permission).                                                            *)
C9_NoDuplicateRows ==
    \A r \in grant_rows : CopiesIn(r, user_document_permissions) <= 1

(* C10: a grant leaves the pair with exactly the permissions of the list   *)
(* passed, and leaves the rows of every other pair as they were.           *)
C10_GrantReplaces ==
    [][\A g \in GrantPairs : \A P \in SeqsUpTo(GrantPerms, MaxPermList) :
          GrantDocumentAccess(g[1], g[2], P) =>
             /\ granted_permissions(g[1], g[2])' = Range(P)
             /\ \A r \in grant_rows \cup grant_rows' :
                   (r.user_id # g[1] \/ r.document_id # g[2]) =>
                      CopiesIn(r, user_document_permissions') =
                         CopiesIn(r, user_document_permissions)]_vars

(* C10 witness: bob held a grant on d1, now holds write_document alone     *)
(* there, while carol's read grant on d1 and bob's on d2 stand.            *)
C10_Witness ==
    /\ granted_permissions(3, "d1") = {WRITE_DOCUMENT}
    /\ granted_permissions(4, "d1") = {READ_DOCUMENT}
    /\ granted_permissions(3, "d2") = {READ_DOCUMENT, WRITE_DOCUMENT}

(* the rows of one (user, document) pair in a table *)
rows_of_pair(table, user_id, document_id) ==
    LET matched == {r \in BagToSet(table) :
                       r.user_id = user_id /\ r.document_id = document_id}
    IN [r \in matched |-> table[r]]

NoRepeats(P) == \A i, j \in DOMAIN P : P[i] = P[j] => i = j

(* C11: while a session replaces the grants of a pair, the table that the  *)
(* other requests read holds for that pair the complete old rows up to    *)
(* the commit and the complete new rows from the commit on, never a state *)
(* in between.                                                            *)
C11_ReaderSeesOldOrNew ==
    [][\A s \in Sessions :
          LET t == grant_sessions'[s]
              seen == rows_of_pair(user_document_permissions',
                                   t.user_id, t.document_id)
          IN /\ t.pc = "inserting" => seen = t.deleted
             /\ (grant_sessions[s].pc = "inserting" /\ t.pc = "committed") =>
                   seen = insert_rows(t.user_id, t.document_id,
                                      t.permissions)]_vars

(* C11 witness: a session has deleted bob's read and write grants on d1   *)
(* and inserted one of two new rows, nothing committed yet, and the table *)
(* still gives bob both old permissions.                                  *)
C11_Witness ==
    \E s \in Sessions :
       LET t == grant_sessions[s]
       IN /\ t.pc = "inserting"
          /\ t.user_id = 3 /\ t.document_id = "d1"
          /\ BagToSet(t.deleted) # {}
          /\ Len(t.permissions) = 2 /\ t.i = 1
          /\ Range(t.permissions) # granted_permissions(3, "d1")
          /\ granted_permissions(3, "d1") = {READ_DOCUMENT, WRITE_DOCUMENT}

private_of_another(u, d) ==
    \E doc \in get_document(d) : ~doc.is_public /\ doc.owner_id # u

(* C13: for a user who is not a superadmin and a private document of       *)
(* another owner: without a grant the document is not among the user's    *)
(* accessible documents, a grant of read_document puts it there, a revoke *)
(* takes it out again, and a revoke for a pair without rows leaves the    *)
(* table as it is.                                                        *)
C13_GrantThenRevoke ==
    [][\A u \in {bob.id, carol.id}, d \in DocIds :
          /\ (private_of_another(u, d) /\ granted_permissions(u, d) = {}) =>
                d \notin accessible_ids(u)
          /\ (private_of_another(u, d)
                 /\ GrantDocumentAccess(u, d, <<READ_DOCUMENT>>)) =>
                d \in accessible_ids(u)'
          /\ (private_of_another(u, d) /\ RevokeDocumentAccess(d, u)) =>
                d \notin accessible_ids(u)'
          /\ granted_permissions(u, d) = {} =>
                revoke_document_access(u, d) = user_document_permissions]_vars

(* C13 witness: d1 is alice's private document, bob holds read_document on *)
(* it and finds it among his accessible documents, carol holds nothing on *)
(* it and does not.                                                       *)
C13_Witness ==
    /\ private_of_another(3, "d1")
    /\ granted_permissions(3, "d1") = {READ_DOCUMENT}
    /\ "d1" \in accessible_ids(3)
    /\ private_of_another(4, "d1")
    /\ granted_permissions(4, "d1") = {}
    /\ "d1" \notin accessible_ids(4)

(* C14: a superadmin is listed every registered document; any other user  *)
(* exactly the registered documents that the user owns, that are public,  *)
(* or on which the user holds at least one grant row; no id is listed     *)
(* twice.                                                                 *)
C14_AccessibleDocuments ==
    \A user \in users :
       LET listed == get_user_accessible_documents(user)
       IN /\ user.role = SUPERADMIN => listed = documents
          /\ user.role # SUPERADMIN =>
                listed = {d \in documents :
                            \/ d.owner_id = user.id
                            \/ d.is_public
                            \/ granted_permissions(user.id, d.id) # {}}
          /\ \A x, y \in listed : x.id = y.id => x = y

(* C14 witness: d1 is public, alice's, and granted to bob, who is listed   *)
(* it once; d2 is private, of another owner, not granted to bob and not   *)
(* listed for him; carol holds a grant on d2 and is listed both.          *)
C14_Witness ==
    /\ \E doc \in get_document("d1") : doc.is_public /\ doc.owner_id = 2
    /\ granted_permissions(3, "d1") # {}
    /\ get_user_accessible_documents(bob) = get_document("d1")
    /\ private_of_another(3, "d2")
    /\ granted_permissions(4, "d2") # {}
    /\ get_user_accessible_documents(carol) =
          get_document("d1") \cup get_document("d2")

(* the account a client's token authenticates *)
caller(c) == get_current_user(tokens[c])

(* C15: a delete request is answered 200 exactly when the document is      *)
(* registered and the caller owns it, is a superadmin, or holds a         *)
(* delete_document grant row on it; every other authenticated caller is   *)
(* answered 403, and a step of a request not answered 200 leaves the      *)
(* documents, the grant rows and the ingested content as they were.       *)
C15_DeleteGuard ==
    [][\A c \in Clients, d \in DocIds :
          LET status == enhanced_delete_ingested_status(c, d)
          IN /\ caller(c) # {} =>
                   /\ status \in {200, 403}
                   /\ status = 200 <=>
                         \E u \in caller(c) : \E doc \in get_document(d) :
                            \/ doc.owner_id = u.id
                            \/ u.role = SUPERADMIN
                            \/ DELETE_DOCUMENT \in granted_permissions(u.id, d)
             /\ status # 200 =>
                   ~ENABLED EnhancedDeleteIngested(c, d)
             /\ EnhancedDeleteIngested(c, d) => status = 200]_vars

(* C15 witness: d1 is the superadmin's private document; alice, whose role *)
(* carries delete_document, is answered 403, bob with a read grant is     *)
(* answered 403, the owner 200; d2 is not registered and the superadmin   *)
(* is answered 403 for it.                                                *)
C15_Witness ==
    /\ \E doc \in get_document("d1") : doc.owner_id = 1 /\ ~doc.is_public
    /\ "d1" \in ingested
    /\ has_permission(alice, DELETE_DOCUMENT)
    /\ enhanced_delete_ingested_status("c2", "d1") = 403
    /\ granted_permissions(3, "d1") = {READ_DOCUMENT}
    /\ enhanced_delete_ingested_status("c3", "d1") = 403
    /\ enhanced_delete_ingested_status("c1", "d1") = 200
    /\ get_document("d2") = {}
    /\ enhanced_delete_ingested_status("c1", "d2") = 403

(* C16: a visibility request is answered 404 for an id that is not         *)
(* registered, 200 when the caller owns the document and 403 for every    *)
(* other authenticated caller, administrators included; a request not     *)
(* answered 200 takes no step, and a step of the request changes the flag *)
(* of that document and nothing else.                                     *)
C16_VisibilityOwnerOnly ==
    [][\A c \in Clients, d \in DocIds :
          LET status == update_document_visibility_status(c, d)
          IN /\ caller(c) # {} =>
                   status = IF get_document(d) = {} THEN 404
                            ELSE IF \E u \in caller(c) :
                                       \E doc \in get_document(d) :
                                          doc.owner_id = u.id
                                 THEN 200
                            ELSE 403
             /\ \A b \in BOOLEAN :
                   /\ status # 200 => ~ENABLED UpdateDocumentVisibility(c, d, b)
                   /\ UpdateDocumentVisibility(c, d, b) =>
                         /\ status = 200
                         /\ \E doc \in get_document(d) :
                               documents' = (documents \ {doc}) \cup
                                  {[doc EXCEPT !.is_public = b]}
                         /\ UNCHANGED user_document_permissions]_vars

(* C16 witness: d1 is alice's public document; the superadmin and bob,    *)
(* who holds a grant on it, are answered 403, alice 200, and d2, not      *)
(* registered, is answered 404.                                           *)
C16_Witness ==
    /\ \E doc \in get_document("d1") : doc.owner_id = 2 /\ doc.is_public
    /\ granted_permissions(3, "d1") # {}
    /\ update_document_visibility_status("c1", "d1") = 403
    /\ update_document_visibility_status("c3", "d1") = 403
    /\ update_document_visibility_status("c2", "d1") = 200
    /\ get_document("d2") = {}
    /\ update_document_visibility_status("c2", "d2") = 404

(* C17: an ingest under an id that is already registered is answered with *)
(* a failure, whoever sends it, and in no step does the row of a          *)
(* registered id come to name another owner or file name, or another      *)
(* visibility unless by a visibility request.                             *)
C17_RegisteredRowKept ==
    [][\A d \in DocIds :
          get_document(d) # {} =>
             /\ \A c \in Clients :
                   /\ enhanced_ingest_file_status(c, d) # 200
                   /\ \A f \in OwnerFilenames :
                         enhanced_ingest_text_status(c, f, d) # 200
             /\ \A doc \in get_document(d) : \A kept \in get_document(d)' :
                   /\ kept.owner_id = doc.owner_id
                   /\ kept.filename = doc.filename
                   /\ kept.is_public # doc.is_public =>
                         \E c \in Clients :
                            UpdateDocumentVisibility(c, d, kept.is_public)]_vars

(* C17 witness: d1 is registered to alice as a private notes.txt, and the *)
(* superadmin, who may ingest, would be answered 500 for a second         *)
(* registration of d1.                                                    *)
C17_Witness ==
    /\ get_document("d1") = {[id |-> "d1", filename |-> "notes.txt",
                              owner_id |-> 2, is_public |-> FALSE]}
    /\ enhanced_ingest_text_status("c1", "plan.txt", "d1") = 500
    /\ enhanced_ingest_file_status("c2", "d1") = 500

(* C18: every step of a model grant leaves exactly one entitlement row for *)
(* its pair, no pair ever holds more than one, a grant for a pair that    *)
(* holds a row and a revoke for a pair that holds none leave the table as *)
(* it is.                                                                 *)
C18_ModelGrantIdempotent ==
    [][\A u \in ModelGrantees, m \in ModelIds :
          LET row == UserModelAccess(u, m)
          IN /\ CopiesIn(row, user_model_access) <= 1
             /\ GrantModelAccess(u, m) =>
                   CopiesIn(row, user_model_access') = 1
             /\ CopiesIn(row, user_model_access) = 1 =>
                   grant_model_access(u, m) = user_model_access
             /\ CopiesIn(row, user_model_access) = 0 =>
                   revoke_model_access(u, m) = user_model_access]_vars

(* C18 witness: bob holds one entitlement row for model 1 and none for    *)
(* model 2, which is registered.                                          *)
C18_Witness ==
    /\ CopiesIn(UserModelAccess(3, 1), user_model_access) = 1
    /\ CopiesIn(UserModelAccess(3, 2), user_model_access) = 0
    /\ \E m \in llm_models : m.id = 2

(* C19: a superadmin is listed every active model, with or without        *)
(* entitlement rows; any other user exactly the active models for which   *)
(* the table holds a row of that user.                                    *)
C19_AccessibleModels ==
    \A user \in users :
       LET listed == get_user_accessible_models(user)
       IN /\ user.role = SUPERADMIN =>
                listed = {m \in llm_models : m.is_active}
          /\ user.role # SUPERADMIN =>
                listed = {m \in llm_models :
                            /\ m.is_active
                            /\ UserModelAccess(user.id, m.id)
                                  \in model_access_rows}

(* C19 witness: two models are registered; the superadmin holds no row    *)
(* and is listed both, alice the administrator holds a row for model 1    *)
(* and is listed it alone, bob holds a row for model 2 and is listed it   *)
(* alone.                                                                 *)
C19_Witness ==
    /\ Cardinality(llm_models) = 2
    /\ \A a \in model_access_rows : a.user_id # 1
    /\ get_user_accessible_models(CHOOSE u \in init_db : TRUE) = llm_models
    /\ {m.id : m \in get_user_accessible_models(alice)} = {1}
    /\ {m.id : m \in get_user_accessible_models(bob)} = {2}

(* C20: a token is issued with exp 30 minutes after the login; as long as *)
(* fewer than 30 minutes have passed, verifying it gives claims whose sub *)
(* is the user's name, whose role is the user's role and whose           *)
(* permissions are those of that role; once 30 minutes have passed,       *)
(* verifying it gives nothing.                                            *)
C20_IssueVerifyRoundTrip ==
    [][\A c \in Clients :
          /\ \A n \in AccountNames, p \in Passwords :
                (Login(c, n, p) /\ authenticate_user(n, p) # {}) =>
                   \A t \in tokens'[c] : t.sub = n /\ t.exp = now + 30
          /\ \A t \in tokens[c] : \E u \in get_user_by_username(t.sub) :
                LET issued == t.exp - 30
                IN /\ now < issued + 30 =>
                         \E claims \in verify_token(t) :
                            /\ verify_token(t) = {claims}
                            /\ claims.sub = u.username
                            /\ claims.role = u.role
                            /\ claims.permissions = ROLE_PERMISSIONS[u.role]
                   /\ now >= issued + 30 => verify_token(t) = {}]_vars

(* C20 witness: the client holds the token bob got at minute 1; at minute *)
(* 31 verifying it gives nothing, and no request bearing it is            *)
(* authenticated.                                                         *)
C20_Witness ==
    /\ now = 31
    /\ \E t \in tokens["c1"] : t.sub = "bob" /\ t.exp = 31
    /\ \A t \in tokens["c1"] : verify_token(t) = {}
    /\ get_current_user(tokens["c1"]) = {}

(* C21: a permission check hands on the authenticated user exactly when    *)
(* the permission is in the set of the user's role and answers 403        *)
(* otherwise, handing on nobody; an account of role user is issued a      *)
(* token that carries chat and read_document and not manage_users, and    *)
(* its check for manage_users answers 403.                                *)
C21_RequirePermission ==
    \A c \in Clients :
       /\ \A p \in Permission : \A u \in caller(c) :
             IF p \in ROLE_PERMISSIONS[u.role]
             THEN /\ require_permission(tokens[c], p) = {u}
                  /\ require_permission_status(tokens[c], p) = 200
             ELSE /\ require_permission(tokens[c], p) = {}
                  /\ require_permission_status(tokens[c], p) = 403
       /\ \A p \in Permission :
             caller(c) = {} => require_permission(tokens[c], p) = {}
       /\ \A t \in tokens[c] :
             t.role = USER =>
                /\ {CHAT, READ_DOCUMENT} \subseteq t.permissions
                /\ MANAGE_USERS \notin t.permissions
       /\ \A u \in caller(c) :
             u.role = USER =>
                require_permission_status(tokens[c], MANAGE_USERS) = 403

(* C21 witness: alice was created with role user and has logged in; her   *)
(* token carries chat and read_document, her check for chat hands her on  *)
(* and her check for manage_users hands on nobody.                        *)
C21_Witness ==
    \E c \in Clients : \E u \in caller(c) : \E t \in tokens[c] :
       /\ u.username = "alice" /\ u.role = USER /\ t.role = USER
       /\ {CHAT, READ_DOCUMENT} \subseteq t.permissions
       /\ require_permission(tokens[c], CHAT) = {u}
       /\ require_permission(tokens[c], MANAGE_USERS) = {}

(* C22: in the role table user holds none of manage_users, manage_models, *)
(* manage_system, manage_permissions; superadmin holds every permission;  *)
(* every role holds some permission; superadmin's set contains admin's,   *)
(* which contains user's.  Stated on the permissions of the accounts of   *)
(* the store and on the table itself.                                     *)
C22_RoleTable ==
    /\ \A u \in users :
          /\ get_user_permissions(u) # {}
          /\ u.role = USER =>
                get_user_permissions(u) \cap
                   {MANAGE_USERS, MANAGE_MODELS, MANAGE_SYSTEM,
                    MANAGE_PERMISSIONS} = {}
          /\ u.role = SUPERADMIN => get_user_permissions(u) = Permission
    /\ ROLE_PERMISSIONS[USER] \cap
          {MANAGE_USERS, MANAGE_MODELS, MANAGE_SYSTEM, MANAGE_PERMISSIONS} = {}
    /\ ROLE_PERMISSIONS[SUPERADMIN] = Permission
    /\ \A r \in UserRole : ROLE_PERMISSIONS[r] # {}
    /\ ROLE_PERMISSIONS[USER] \subseteq ROLE_PERMISSIONS[ADMIN]
    /\ ROLE_PERMISSIONS[ADMIN] \subseteq ROLE_PERMISSIONS[SUPERADMIN]

(* C22 witness: the store holds an account of each of the three roles,    *)
(* and the administrator has logged in and carries her role's set.        *)
C22_Witness ==
    /\ {u.role : u \in users} = UserRole
    /\ \E t \in tokens["c1"] :
          t.role = ADMIN /\ VIEW_SYSTEM_LOGS \in t.permissions
                        /\ MANAGE_SYSTEM \notin t.permissions
    /\ \E u \in users :
          u.role = ADMIN /\ MANAGE_USERS \in get_user_permissions(u)
                        /\ MANAGE_MODELS \notin get_user_permissions(u)

(* C23: no two accounts share a username or an email; a creation under a  *)
(* username or an email that is taken is answered 400 and an update that  *)
(* would take the username or the email of another account is answered   *)
(* with a failure, and both leave the accounts as they are.               *)
C23_UniqueNames ==
    /\ \A u, v \in users :
          (u.username = v.username \/ u.email = v.email) => u = v
    /\ \A d \in UserCreates :
          (\E u \in users : u.username = d.username \/ u.email = d.email) =>
             /\ create_user(d) = users
             /\ \A c \in Clients :
                   require_admin(tokens[c]) # {} =>
                      create_user_status(c, d) = 400
    /\ \A i \in UserIds, d \in UserIdentityUpdates :
          \A user \in get_user_by_id(i) :
             (\E o \in users \ {user} :
                 \/ o.username = apply_update(user, d).username
                 \/ o.email = apply_update(user, d).email) =>
                /\ update_user(i, d) = users
                /\ \A c \in Clients :
                      require_admin(tokens[c]) # {} =>
                         update_user_status(c, i, d) = 500

(* C23 witness: two accounts exist, an administrator is logged in, and a  *)
(* creation under the username of one and the email of the other and an  *)
(* update of one to the email of the other are both refused.             *)
C23_Witness ==
    /\ Cardinality(users) = 2
    /\ require_admin(tokens["c1"]) # {}
    /\ \E d \in UserCreates : \E u, v \in users :
          /\ u # v /\ u.username = d.username /\ v.email = d.email
          /\ create_user_status("c1", d) = 400
    /\ \E u, v \in users :
          /\ u # v
          /\ update_user_status("c1", u.id,
                                [NoUpdate EXCEPT !.email = {v.email}]) = 500

(* C24: a setup leaves exactly one account of role superadmin, and a      *)
(* setup run while an account of that role exists leaves the accounts,    *)
(* the models and the entitlements as they were.                          *)
C24_SetupIdempotent ==
    [][SetupEnhancedPrivateGpt =>
          /\ Cardinality({u \in users' : u.role = SUPERADMIN}) = 1
          /\ (\E u \in users : u.role = SUPERADMIN) =>
                UNCHANGED <<users, llm_models, user_model_access>>]_vars

(* C25: a refused login does not tell whether the username exists: for    *)
(* every password, the answer (status code and detail) to a username no   *)
(* account has equals the answer to a username of an account that has      *)
(* another password.                                                       *)
C25_LoginHidesUsernames ==
    \A p \in Passwords : \A absent \in Usernames : \A present \in Usernames :
        (/\ get_user_by_username(absent) = {}
         /\ \E u \in get_user_by_username(present) :
               ~verify_password(p, u.hashed_password))
        => /\ login_outcome(absent, p) = login_outcome(present, p)
           /\ login_outcome(absent, p).status_code = 401

C25_Witness ==
    /\ get_user_by_username("alice") = {}
    /\ \E u \in get_user_by_username("superadmin") :
          ~verify_password("longpw1234", u.hashed_password)
    /\ login_outcome("alice", "longpw1234")
          = login_answer(401, "Incorrect username or password")
    /\ login_outcome("superadmin", "longpw1234")
          = login_outcome("alice", "longpw1234")
    /\ login_outcome("superadmin", "admin123!").status_code = 200
    /\ tokens["c1"] # {}

(* C26: a token authenticates no account but the one it was issued to:    *)
(* the user a token authenticates has the id the token carries.           *)
C26_TokenBoundToAccount ==
    \A c \in Clients : \A t \in tokens[c] :
        \A u \in get_current_user({t}) : u.id = t.user_id

(* C27: an account comes to hold the role superadmin (by creation or by   *)
(* update) only in a step whose caller holds that role: when no client    *)
(* authenticates as a superadmin, no step adds a superadmin account.      *)
C27_OnlySuperadminMakesSuperadmin ==
    [][(\E u \in users' :
           /\ u.role = SUPERADMIN
           /\ ~\E o \in users : o.id = u.id /\ o.role = SUPERADMIN)
       => \E c \in Clients : require_superadmin(tokens[c]) # {}]_vars

(* C28: every document listed as accessible to a user who is not a        *)
(* superadmin is one the user may read: can_access_document answers true  *)
(* for it and read_document.                                              *)
C28_AccessibleIsReadable ==
    \A user \in users :
       user.role # SUPERADMIN =>
          \A d \in get_user_accessible_documents(user) :
             can_access_document(user, d.id, READ_DOCUMENT)

(* C29: however the grant_model_access calls of two sessions interleave,  *)
(* the table holds at most one row per (user, model), and after a revoke  *)
(* of a pair no row of the pair is left and the model is not among the    *)
(* accessible models of the user.                                         *)
C29_ConcurrentGrantsOneRow ==
    [][\A g \in TxModelPairs :
          /\ CopiesIn(UserModelAccess(g[1], g[2]), user_model_access') <= 1
          /\ RevokeModelAccess(g[2], g[1]) =>
                /\ CopiesIn(UserModelAccess(g[1], g[2]), user_model_access') = 0
                /\ \A u \in users' : u.id = g[1] =>
                      \A m \in get_user_accessible_models(u)' : m.id # g[2]]_vars

(* C30: the model listing of a caller whose accessible models are not     *)
(* empty has one entry per accessible model, and the default entry is     *)
(* listed only to a caller without accessible models.                     *)
C30_ListingReflectsEntitlements ==
    \A c \in Clients : \A current_user \in get_current_user(tokens[c]) :
        LET accessible == get_user_accessible_models(current_user)
            listed == get_available_models(current_user)
        IN /\ accessible # {} =>
                Cardinality(listed) = Cardinality(accessible)
           /\ default_model_entry \in listed => accessible = {}

=============================================================================
